---- MODULE Spec2Model ----
(***************************************************************************)
(* Model of super_gradients/conversion/onnx/utils.py (append_graphs,       *)
(* iteratively_infer_shapes) and training/utils/ema_decay_schedules.py     *)
(* (ConstantDecay, ThresholdDecay).                                        *)
(*                                                                         *)
(* A gs.Graph is a record [nodes, inputs, outputs]; a gs.Node a record     *)
(* [op, name, inputs, outputs]; a tensor object a record [g, name] where g *)
(* says which graph built it (two graphs may use the same tensor name, the *)
(* tensor objects stay distinct).                                          *)
(***************************************************************************)
EXTENDS Integers, Sequences, FiniteSets, TLC

VARIABLES
    \* append_graphs
    graph1,         \* the object passed as graph1 (mutated in place)
    graph2,         \* the object passed as graph2
    argA,           \* graph1 as it was when the call was made
    argB,           \* graph2 as it was when the call was made
    pcA,            \* "call" | "returned" | "raised"
    ret,            \* which object the call returned: "none" | "graph1"
    err,            \* the exception that left append_graphs: "none" | "ValueError"
    \* iteratively_infer_shapes
    heap,           \* the gs.Graph objects that exist, by object id (1 is the caller's)
    graph,          \* the local variable graph: the id of the working graph
    arg0,           \* the caller's graph as it was when the call was made
    passes,         \* iterations of the for loop started so far
    count_before,   \* the local count_before
    count_after,    \* the local count_after
    pcR,            \* "enter" | "loop" | "cleanup" | "infer" | "fold" | "compare" | "done" | "raised"
    exc,            \* the exception that left the function: NoExc or [type, at]
    log,            \* what the logger was given, in order
    \* EMA decay schedules
    fn,             \* the schedule looked up: "constant" | "threshold"
    decay,          \* the decay argument, a rational <<numerator, denominator>>
    step,           \* the step argument of the latest call
    total_steps,    \* the total_steps argument of the latest call
    result,         \* what the latest call returned
    prevStep,       \* the step argument of the call before it (-1: none)
    prevResult      \* what the call before it returned

varsA == <<graph1, graph2, argA, argB, pcA, ret, err>>
varsR == <<heap, graph, arg0, passes, count_before, count_after, pcR, exc, log>>
varsE == <<fn, decay, step, total_steps, result, prevStep, prevResult>>
vars == <<varsA, varsR, varsE>>

\* ------------------------------------------------------------------ bounds
MaxNodes == 2       \* nodes of each argument graph
MaxIO == 2          \* declared outputs of graph1, declared inputs of graph2
MaxRemovable == 3   \* nodes of the refined graph that cleanup, import or folding can remove
MaxKept == 1        \* nodes of the refined graph that nothing removes
MaxStep == 10       \* steps 0..MaxStep (and 999) are passed to the schedules
MaxDecayNum == 11   \* decay numerators -1..MaxDecayNum over the denominators 1, 2, 10

\* ------------------------------------------------------------------ helpers
Digit(i) ==
    CASE i = 0 -> "0" [] i = 1 -> "1" [] i = 2 -> "2" [] i = 3 -> "3"
      [] i = 4 -> "4" [] i = 5 -> "5" [] i = 6 -> "6" [] i = 7 -> "7"
      [] i = 8 -> "8" [] OTHER -> "9"

Range(s) == {s[i] : i \in 1..Len(s)}

Reverse(s) == [i \in 1..Len(s) |-> s[Len(s) + 1 - i]]

Max(S) == CHOOSE x \in S : \A y \in S : y <= x

Min2(a, b) == IF a < b THEN a ELSE b

SeqsUpTo(S, k) == UNION {[1..n -> S] : n \in 0..k}

\* ------------------------------------------------------------------ graphs
Tensor(g, i) == [g |-> g, name |-> "t" \o Digit(i)]

\* Node i of graph g with m declared inputs: it produces tensor m+i-1 and
\* consumes the earlier tensor src (nothing when there is no earlier tensor).
MkNode(g, m, i, src) ==
    [op |-> "Op",
     name |-> g \o "_node" \o Digit(i),
     inputs |-> IF m + i - 1 = 0 THEN <<>> ELSE <<Tensor(g, src)>>,
     outputs |-> <<Tensor(g, m + i - 1)>>]

Wirings(m, n) ==
    {src \in [1..n -> 0..(m + n)] :
        \A i \in 1..n : IF m + i - 1 = 0 THEN src[i] = 0 ELSE src[i] < m + i - 1}

\* The acyclic graphs with m declared inputs and n nodes, in either list order.
Graphs(g, m, n, outs) ==
    {[nodes |-> IF rev THEN Reverse([i \in 1..n |-> MkNode(g, m, i, src[i])])
                ELSE [i \in 1..n |-> MkNode(g, m, i, src[i])],
      inputs |-> [i \in 1..m |-> Tensor(g, i - 1)],
      outputs |-> o] :
        src \in Wirings(m, n), rev \in IF n > 1 THEN BOOLEAN ELSE {FALSE}, o \in outs}

\* graph1: one declared input; its declared outputs are any sequence over its
\* input tensor (which no node produces) and the last tensor its nodes produce.
GraphsA ==
    UNION {Graphs("A", 1, n, SeqsUpTo({Tensor("A", 0), Tensor("A", n)}, MaxIO)) :
              n \in 0..MaxNodes}

\* graph2: up to MaxIO declared inputs; it declares its last tensor as output.
GraphsB ==
    UNION {Graphs("B", m, n, {[i \in 1..Min2(1, m + n) |-> Tensor("B", m + n - i)]}) :
              m \in 0..MaxIO, n \in 0..MaxNodes}

\* ------------------------------------------------------------------ append_graphs
\* Positions of the nodes that produce tensor t (gs: tensor.inputs).
Producers(t, nodes) == {j \in 1..Len(nodes) : t \in Range(nodes[j].outputs)}

InputNodes(i, nodes) ==
    UNION {Producers(nodes[i].inputs[k], nodes) : k \in 1..Len(nodes[i].inputs)}

\* Graph.toposort: the level of a node is the level of its highest input + 1.
RECURSIVE HierarchyLevel(_, _)
HierarchyLevel(i, nodes) ==
    IF InputNodes(i, nodes) = {} THEN 0
    ELSE 1 + Max({HierarchyLevel(j, nodes) : j \in InputNodes(i, nodes)})

\* A mutant: the call to toposort() left out.
toposortSkipped(nodes) == nodes

\* hierarchy_levels: the levels of the first k nodes, in list order.
RECURSIVE HierarchyLevels(_, _)
HierarchyLevels(nodes, k) ==
    IF k = 0 THEN <<>>
    ELSE Append(HierarchyLevels(nodes, k - 1), HierarchyLevel(k, nodes))

\* sorted(hierarchy_levels.values()): a stable sort of the nodes by level lv.
SortByLevel(nodes, lv) ==
    [p \in 1..Len(nodes) |->
        nodes[CHOOSE i \in 1..Len(nodes) :
                p = 1 + Cardinality({j \in 1..Len(nodes) :
                            lv[j] < lv[i] \/ (lv[j] = lv[i] /\ j < i)})]]

\* Graph.toposort: the nodes sorted by hierarchy level.
toposort(nodes) == SortByLevel(nodes, HierarchyLevels(nodes, Len(nodes)))

\* gs.Node(op="Identity", name=f"Identity_{out.name}_{inp.name}", inputs=[out], outputs=[inp])
IdentityNode(out, inp) ==
    [op |-> "Identity",
     name |-> "Identity_" \o out.name \o "_" \o inp.name,
     inputs |-> <<out>>,
     outputs |-> <<inp>>]

\* for node in graph2.nodes: merged_graph.nodes.append(node)
AppendNodes(g1, g2) == g1.nodes \o g2.nodes

\* A mutant: the outputs cleared before the stitching loop reads them.
StitchAfterClear(g1, g2) == <<>>

\* for out, inp in zip(graph1.outputs, graph2.inputs): one Identity node per pair.
Stitch(g1, g2) ==
    [i \in 1..Min2(Len(g1.outputs), Len(g2.inputs)) |->
        IdentityNode(g1.outputs[i], g2.inputs[i])]

\* A mutant: graph2's outputs added to graph1's instead of replacing them.
MergedOutputsExtended(g1, g2) == g1.outputs \o g2.outputs

\* merged_graph.outputs.clear(); merged_graph.outputs = graph2.outputs
MergedOutputs(g1, g2) == g2.outputs

\* A mutant: the count check made after graph2's nodes were appended.
OnMismatchLate(g1, g2) == [g1 EXCEPT !.nodes = AppendNodes(g1, g2)]

\* graph1 when the ValueError is raised: nothing has touched it yet.
OnMismatch(g1, g2) == g1

\* graph1 when append_graphs returns.
Merged(g1, g2) ==
    [nodes |-> toposort(AppendNodes(g1, g2) \o Stitch(g1, g2)),
     inputs |-> g1.inputs,
     outputs |-> MergedOutputs(g1, g2)]

InitA ==
    /\ graph1 \in GraphsA
    /\ graph2 \in GraphsB
    /\ argA = graph1
    /\ argB = graph2
    /\ pcA = "call"
    /\ ret = "none"
    /\ err = "none"

append_graphs ==
    /\ pcA = "call"
    /\ IF Len(graph1.outputs) # Len(graph2.inputs)
       THEN /\ graph1' = OnMismatch(graph1, graph2)
            /\ pcA' = "raised"
            /\ err' = "ValueError"
            /\ ret' = "none"
       ELSE /\ graph1' = Merged(graph1, graph2)
            /\ pcA' = "returned"
            /\ err' = "none"
            /\ ret' = "graph1"
    /\ UNCHANGED <<graph2, argA, argB>>
    /\ UNCHANGED <<varsR, varsE>>


\* ------------------------------------------------------------------ iteratively_infer_shapes
\* A graph object is [n, r, ops]: n = len(graph.nodes); r of those nodes are
\* ones that cleanup, the export/import round trip or folding can still remove;
\* ops lists what has been applied to it (an imported graph starts from what the
\* exported one had). The library calls pick how many of the r nodes they remove,
\* and whether they raise.
MaxPasses == 3

Caller == 1

NoExc == [type |-> "none", at |-> "none"]

ExcTypes == {"TypeError", "RuntimeError"}

Applied(g, op, k) == [n |-> g.n - k, r |-> g.r - k, ops |-> Append(g.ops, op)]

IdleA ==
    /\ graph1 = [nodes |-> <<>>, inputs |-> <<>>, outputs |-> <<>>]
    /\ graph2 = graph1
    /\ argA = graph1
    /\ argB = graph1
    /\ pcA = "idle"
    /\ ret = "none"
    /\ err = "none"

IdleR ==
    /\ heap = <<>>
    /\ graph = 0
    /\ arg0 = [n |-> 0, r |-> 0, ops |-> <<>>]
    /\ passes = 0
    /\ count_before = 0
    /\ count_after = 0
    /\ pcR = "idle"
    /\ exc = NoExc
    /\ log = <<>>

InitR ==
    /\ \E r \in 0..MaxRemovable, k \in 0..MaxKept :
          heap = <<[n |-> r + k, r |-> r, ops |-> <<>>]>>
    /\ graph = Caller
    /\ arg0 = heap[Caller]
    /\ passes = 0
    /\ count_before = 0
    /\ count_after = 0
    /\ pcR = "enter"
    /\ exc = NoExc
    /\ log = <<>>

\* logger.debug("Performing shape inference & folding.")
Enter ==
    /\ pcR = "enter"
    /\ log' = Append(log, [level |-> "debug", msg |-> "performing"])
    /\ pcR' = "loop"
    /\ UNCHANGED <<heap, graph, arg0, passes, count_before, count_after, exc>>
    /\ UNCHANGED <<varsA, varsE>>

\* A mutant: a loop with no cap on the passes.
RangeUnbounded(k) == TRUE

\* for _ in range(3): another iteration starts while fewer than 3 have.
RangeHasNext(k) == k < MaxPasses

\* count_before = len(graph.nodes)
CountBefore(h, g) == h[g].n

LoopHead ==
    /\ pcR = "loop"
    /\ IF RangeHasNext(passes)
       THEN /\ passes' = passes + 1
            /\ count_before' = CountBefore(heap, graph)
            /\ pcR' = "cleanup"
       ELSE /\ pcR' = "done"
            /\ UNCHANGED <<passes, count_before>>
    /\ UNCHANGED <<heap, graph, arg0, count_after, exc, log>>
    /\ UNCHANGED <<varsA, varsE>>

\* graph.cleanup().toposort(), both in place on the working graph.
CleanupToposort ==
    /\ pcR = "cleanup"
    /\ \E k \in 0..heap[graph].r :
          heap' = [heap EXCEPT ![graph] = Applied(Applied(@, "cleanup", k), "toposort", 0)]
    /\ pcR' = "infer"
    /\ UNCHANGED <<graph, arg0, passes, count_before, count_after, exc, log>>
    /\ UNCHANGED <<varsA, varsE>>

\* cleanup() or toposort() raises: no handler is around the call.
CleanupToposortRaises ==
    /\ pcR = "cleanup"
    /\ \/ UNCHANGED heap
       \/ \E k \in 0..heap[graph].r :
             heap' = [heap EXCEPT ![graph] = Applied(@, "cleanup", k)]
    /\ \E t \in ExcTypes : exc' = [type |-> t, at |-> "cleanup"]
    /\ pcR' = "raised"
    /\ UNCHANGED <<graph, arg0, passes, count_before, count_after, log>>
    /\ UNCHANGED <<varsA, varsE>>

\* model = gs.export_onnx(graph); model = shape_inference.infer_shapes(model);
\* graph = gs.import_onnx(model): the local variable is bound to a new object.
InferShapes ==
    /\ pcR = "infer"
    /\ \E k \in 0..heap[graph].r :
          heap' = Append(heap, Applied(heap[graph], "infer_shapes", k))
    /\ graph' = Len(heap) + 1
    /\ pcR' = "fold"
    /\ UNCHANGED <<arg0, passes, count_before, count_after, exc, log>>
    /\ UNCHANGED <<varsA, varsE>>

\* A mutant: a failing import leaves graph bound to what it had built so far.
AfterFailedInferencePartial(h, g, stage) ==
    IF stage = "import_onnx"
    THEN [heap |-> Append(h, Applied(h[g], "partial_import", 0)), graph |-> Len(h) + 1]
    ELSE [heap |-> h, graph |-> g]

\* The objects and the binding of graph when one of the three calls raised:
\* the assignment of line 55 did not happen.
AfterFailedInference(h, g, stage) == [heap |-> h, graph |-> g]

\* except Exception as e: logger.debug(...)
InferShapesFails ==
    /\ pcR = "infer"
    /\ \E stage \in {"export_onnx", "infer_shapes", "import_onnx"}, t \in ExcTypes :
          /\ heap' = AfterFailedInference(heap, graph, stage).heap
          /\ graph' = AfterFailedInference(heap, graph, stage).graph
          /\ log' = Append(log, [level |-> "debug", msg |-> "no_inference"])
    /\ pcR' = "fold"
    /\ UNCHANGED <<arg0, passes, count_before, count_after, exc>>
    /\ UNCHANGED <<varsA, varsE>>

\* graph.fold_constants(fold_shapes=True), in place on the working graph.
FoldConstants ==
    /\ pcR = "fold"
    /\ \E k \in 0..heap[graph].r :
          heap' = [heap EXCEPT ![graph] = Applied(@, "fold_constants", k)]
    /\ pcR' = "compare"
    /\ UNCHANGED <<graph, arg0, passes, count_before, count_after, exc, log>>
    /\ UNCHANGED <<varsA, varsE>>

\* A mutant: the TypeError logged but not raised again.
FoldConstantsTypeErrorSwallowed ==
    /\ pcR = "fold"
    /\ log' = Append(log, [level |-> "error", msg |-> "unsupported_fold_shapes"])
    /\ pcR' = "compare"
    /\ UNCHANGED <<heap, graph, arg0, passes, count_before, count_after, exc>>
    /\ UNCHANGED <<varsA, varsE>>

\* except TypeError as e: logger.error(...); raise
FoldConstantsTypeError ==
    /\ pcR = "fold"
    /\ log' = Append(log, [level |-> "error", msg |-> "unsupported_fold_shapes"])
    /\ exc' = [type |-> "TypeError", at |-> "fold"]
    /\ pcR' = "raised"
    /\ UNCHANGED <<heap, graph, arg0, passes, count_before, count_after>>
    /\ UNCHANGED <<varsA, varsE>>

\* fold_constants raises something that is no TypeError: no handler matches.
FoldConstantsOtherError ==
    /\ pcR = "fold"
    /\ exc' = [type |-> "RuntimeError", at |-> "fold"]
    /\ pcR' = "raised"
    /\ UNCHANGED <<heap, graph, arg0, passes, count_before, count_after, log>>
    /\ UNCHANGED <<varsA, varsE>>

\* A mutant: the break taken when the counts differ.
BreakOnChange(before, after) == before # after

\* if count_before == count_after: break
FixpointReached(before, after) == before = after

\* count_after = len(graph.nodes); break, or log and go round again.
CompareCounts ==
    /\ pcR = "compare"
    /\ count_after' = heap[graph].n
    /\ IF FixpointReached(count_before, heap[graph].n)
       THEN /\ pcR' = "done"
            /\ UNCHANGED log
       ELSE /\ pcR' = "loop"
            /\ log' = Append(log, [level |-> "debug", msg |-> "folded"])
    /\ UNCHANGED <<heap, graph, arg0, passes, count_before, exc>>
    /\ UNCHANGED <<varsA, varsE>>

NextR ==
    \/ Enter
    \/ LoopHead
    \/ CleanupToposort
    \/ CleanupToposortRaises
    \/ InferShapes
    \/ InferShapesFails
    \/ FoldConstants
    \/ FoldConstantsTypeError
    \/ FoldConstantsOtherError
    \/ CompareCounts

\* ------------------------------------------------------------------ EMA decay schedules
\* Floats are modelled as exact rationals <<p, q>>, q > 0.
RatLess(a, b) == a[1] * b[2] < b[1] * a[2]

RatEq(a, b) == a[1] * b[2] = b[1] * a[2]

RatLeq(a, b) == a[1] * b[2] <= b[1] * a[2]

Decays == {<<p, q>> : p \in (-1)..MaxDecayNum, q \in {1, 2, 10}}

Steps == (0..MaxStep) \cup {999}

Totals == {0, 1, 100}

\* ConstantDecay.__call__
ConstantDecay(d, s, total) == d

\* A mutant: max in place of min.
ThresholdDecayMax(d, s, total) ==
    IF RatLess(d, <<1 + s, 10 + s>>) THEN <<1 + s, 10 + s>> ELSE d

\* ThresholdDecay.__call__: min(decay, (1 + step) / (10 + step)); Python's min
\* returns its first argument unless the second is smaller.
ThresholdDecay(d, s, total) ==
    IF RatLess(<<1 + s, 10 + s>>, d) THEN <<1 + s, 10 + s>> ELSE d

\* EMA_DECAY_FUNCTIONS[name]()(decay, step, total_steps)
DecayFunction(name, d, s, total) ==
    IF name = "constant" THEN ConstantDecay(d, s, total) ELSE ThresholdDecay(d, s, total)

IdleE ==
    /\ fn = "none"
    /\ decay = <<0, 1>>
    /\ step = -1
    /\ total_steps = 0
    /\ result = <<0, 1>>
    /\ prevStep = -1
    /\ prevResult = <<0, 1>>

InitE ==
    /\ fn \in {"constant", "threshold"}
    /\ decay \in Decays
    /\ step = -1
    /\ total_steps = 0
    /\ result = <<0, 1>>
    /\ prevStep = -1
    /\ prevResult = <<0, 1>>

\* One call of the schedule by the training loop, which never steps backwards.
Call ==
    /\ fn # "none"
    /\ \E s \in Steps, t \in Totals :
          /\ s >= step
          /\ step' = s
          /\ total_steps' = t
          /\ result' = DecayFunction(fn, decay, s, t)
    /\ prevStep' = step
    /\ prevResult' = result
    /\ UNCHANGED <<fn, decay>>
    /\ UNCHANGED <<varsA, varsR>>

\* ------------------------------------------------------------------ specifications
Init == InitA /\ IdleR /\ IdleE

NextA == append_graphs

Spec == Init /\ [][NextA]_vars

RefineInit == InitR /\ IdleA /\ IdleE

RefineSpec == RefineInit /\ [][NextR]_vars

\* The interpreter keeps executing the function until it returns or raises.
RefineFairSpec == RefineSpec /\ WF_vars(NextR)

EmaInit == InitE /\ IdleA /\ IdleR

NextE == Call

EmaSpec == EmaInit /\ [][NextE]_vars

\* ------------------------------------------------------------------ claims: append_graphs
Count(x, s) == Cardinality({i \in 1..Len(s) : s[i] = x})

IsPermutation(s, t) ==
    /\ Len(s) = Len(t)
    /\ \A x \in Range(s) \cup Range(t) : Count(x, s) = Count(x, t)

\* The bridge for positional pair i of the graphs as they were passed.
Bridge(i) ==
    [op |-> "Identity",
     name |-> "Identity_" \o argA.outputs[i].name \o "_" \o argB.inputs[i].name,
     inputs |-> <<argA.outputs[i]>>,
     outputs |-> <<argB.inputs[i]>>]

\* Every node comes after every node that produces one of its input tensors.
TopologicallyOrdered(nodes) ==
    \A i, j \in 1..Len(nodes) :
        (Range(nodes[i].inputs) \cap Range(nodes[j].outputs) # {}) => j < i

\* C1: after a successful append_graphs(A, B) the node sequence of the merged
\* graph holds exactly A's original nodes, B's original nodes and one Identity
\* node per positional pair (named Identity_<out>_<in>, input A.outputs[i],
\* output B.inputs[i]), each once: len(A.nodes) + len(B.nodes) + len(A.outputs)
\* nodes, none lost or duplicated by the toposort.
C1_MergedNodes ==
    pcA = "returned" =>
        /\ Len(graph1.nodes) = Len(argA.nodes) + Len(argB.nodes) + Len(argA.outputs)
        /\ IsPermutation(graph1.nodes,
               argA.nodes \o argB.nodes \o [i \in 1..Len(argA.outputs) |-> Bridge(i)])

C1_Witness ==
    /\ pcA = "returned"
    /\ Len(argA.outputs) = 2
    /\ Len(argA.nodes) > 0
    /\ Len(argB.nodes) > 0
    /\ graph1.nodes # argA.nodes \o argB.nodes \o [i \in 1..Len(argA.outputs) |-> Bridge(i)]

\* C2: a successful append_graphs(A, B) returns A itself, whose declared outputs
\* are now exactly B's original outputs in order (none of A's original outputs
\* is still declared) and whose declared inputs are still A's original inputs.
C2_ReturnsGraph1WithOutputsOfGraph2 ==
    pcA = "returned" =>
        /\ ret = "graph1"
        /\ graph1.outputs = argB.outputs
        /\ graph1.inputs = argA.inputs
        /\ Range(argA.outputs) \cap Range(graph1.outputs) = {}

C2_Witness ==
    /\ pcA = "returned"
    /\ Len(argA.outputs) = 2
    /\ Len(argB.outputs) > 0
    /\ Len(argA.nodes) > 0

\* C3: when len(A.outputs) # len(B.inputs) the call fails with the mismatch
\* error and the nodes, declared inputs and declared outputs of both graphs are
\* as they were before the call.
C3_MismatchLeavesGraphsAlone ==
    (pcA # "call" /\ Len(argA.outputs) # Len(argB.inputs)) =>
        /\ pcA = "raised"
        /\ err = "ValueError"
        /\ ret = "none"
        /\ graph1 = argA
        /\ graph2 = argB

C3_Witness ==
    /\ pcA = "raised"
    /\ Len(argA.outputs) = 2
    /\ Len(argB.inputs) = 1
    /\ Len(argB.nodes) > 0

\* C10: the node sequence returned by append_graphs is a topological order:
\* every node comes after every node producing one of its inputs, so the
\* producer of A.outputs[i] precedes bridge i, which precedes every consumer of
\* B.inputs[i].
C10_MergedIsTopologicalOrder ==
    pcA = "returned" => TopologicallyOrdered(graph1.nodes)

C10_Witness ==
    /\ pcA = "returned"
    /\ \E i \in 1..Len(argA.outputs) :
          /\ Producers(argA.outputs[i], argA.nodes) # {}
          /\ \E k \in 1..Len(argB.nodes) : argB.inputs[i] \in Range(argB.nodes[k].inputs)
    /\ ~TopologicallyOrdered(argA.nodes)
    /\ ~TopologicallyOrdered(argB.nodes)

\* ------------------------------------------------------------------ claims: iteratively_infer_shapes
Last(s) == s[Len(s)]

InferenceFailed == [level |-> "debug", msg |-> "no_inference"]

FoldUnsupported == [level |-> "error", msg |-> "unsupported_fold_shapes"]

\* C4: iteratively_infer_shapes always terminates (it returns or raises) and
\* never starts more than 3 passes, whatever each pass's outcomes are.
C4_TerminatesWithinThreePasses ==
    /\ [](passes <= 3)
    /\ <>(pcR \in {"done", "raised"})

C4_Witness ==
    /\ pcR = "done"
    /\ passes = 3
    /\ count_before # count_after
    /\ InferenceFailed \in Range(log)
    /\ graph # Caller

\* C5: on a graph already at fixpoint exactly one pass runs; in general the
\* loop stops at the end of the first pass whose node count after the pass
\* equals the count taken at the start of that pass (before cleanup), and
\* pass k+1 starts only if pass k ended with a different count and k < 3.
C5_StopsAtFirstUnchangedPass ==
    [][/\ (passes' # passes) =>
            /\ pcR = "loop" /\ pcR' = "cleanup"
            /\ passes' = passes + 1
            /\ passes < 3
            /\ passes > 0 => count_before # count_after
       /\ (pcR = "loop" /\ pcR' = "cleanup") => count_before' = heap[graph].n
       /\ (pcR = "compare") =>
            /\ count_after' = heap[graph].n
            /\ pcR' = IF count_before = count_after' THEN "done" ELSE "loop"
       /\ (pcR' = "done" /\ arg0.r = 0) => passes' = 1
      ]_vars

C5_Witness ==
    /\ pcR = "done"
    /\ arg0.r = 0
    /\ arg0.n > 0
    /\ passes = 1
    /\ count_before = count_after

\* C6: when iteratively_infer_shapes returns, the graph the caller holds is
\* the refined graph: it reflects everything the passes applied to the
\* working graph.
C6_CallerHoldsRefinedGraph ==
    pcR = "done" => heap[Caller] = heap[graph]

\* C7 as stated: the TypeError of fold_constants is the only failure that
\* reaches the caller.
C7_OnlyFoldTypeErrorSurfaces ==
    pcR = "raised" => exc = [type |-> "TypeError", at |-> "fold"]

\* C7 as amended: a failure reaches the caller exactly when it arises in
\* cleanup/toposort or in fold_constants, and then no further pass runs; the
\* fold TypeError is the only one logged at error level before it is raised
\* again; a failure of export, shape inference or import never reaches the
\* caller.
C7_SurfacingFailures ==
    [][/\ (pcR # "raised" /\ pcR' = "raised") =>
            /\ pcR \in {"cleanup", "fold"}
            /\ exc'.at = pcR
            /\ exc'.type \in ExcTypes
       /\ (log' # log /\ Last(log') = FoldUnsupported) <=>
            (pcR = "fold" /\ pcR' = "raised" /\ exc'.type = "TypeError")
       /\ (pcR = "infer") => (pcR' = "fold" /\ exc' = NoExc)
       /\ (pcR' # "raised") => exc' = NoExc
       /\ (pcR = "raised") => (pcR' = "raised" /\ passes' = passes /\ exc' = exc)
      ]_vars

C7_Witness ==
    /\ pcR = "raised"
    /\ exc = [type |-> "TypeError", at |-> "fold"]
    /\ Last(log) = FoldUnsupported
    /\ InferenceFailed \in Range(log)
    /\ passes = 2

\* C9: when export, shape inference or import fails, the pass goes on with
\* the working graph as it was after this pass's cleanup and toposort (the
\* same object, unchanged), folding is attempted next in the same pass, and
\* the loop's continue/stop decision is taken from the counts as usual.
C9_InferenceFailureIsNoOp ==
    [][/\ (log' # log /\ Last(log') = InferenceFailed) =>
            /\ pcR = "infer" /\ pcR' = "fold"
            /\ graph' = graph
            /\ heap' = heap
            /\ Last(heap'[graph'].ops) = "toposort"
            /\ passes' = passes
            /\ count_before' = count_before
            /\ exc' = NoExc
       /\ (pcR = "fold" /\ Last(log) = InferenceFailed /\ pcR' # "raised") =>
            pcR' = "compare"
       /\ (pcR = "compare" /\ Last(log) = InferenceFailed) =>
            pcR' = IF count_before = heap[graph].n THEN "done" ELSE "loop"
      ]_vars

C9_Witness ==
    /\ pcR = "loop"
    /\ passes = 2
    /\ graph # Caller
    /\ Len(log) >= 2
    /\ log[Len(log) - 1] = InferenceFailed
    /\ Last(heap[graph].ops) = "fold_constants"

\* ------------------------------------------------------------------ claims: EMA decay schedules
\* C8: ThresholdDecay returns decay when decay*(10+step) <= 1+step and
\* (1+step)/(10+step) otherwise; the result never exceeds decay, never
\* decreases as step grows and does not depend on total_steps (decay 9/10:
\* step 0 gives 1/10, step 999 gives 9/10); ConstantDecay returns decay.
C8_ThresholdIsClampedDecay ==
    (step >= 0) =>
        IF fn = "threshold"
        THEN /\ (decay[1] * (10 + step) <= (1 + step) * decay[2]) => result = decay
             /\ (decay[1] * (10 + step) > (1 + step) * decay[2]) =>
                    result = <<1 + step, 10 + step>>
             /\ RatLeq(result, decay)
             /\ RatLeq(result, <<1 + step, 10 + step>>)
             /\ (prevStep >= 0) => RatLeq(prevResult, result)
             /\ (decay = <<9, 10>> /\ step = 0) => RatEq(result, <<1, 10>>)
             /\ (decay = <<9, 10>> /\ step = 999) => RatEq(result, <<9, 10>>)
        ELSE result = decay

C8_Witness ==
    /\ fn = "threshold"
    /\ decay = <<9, 10>>
    /\ prevStep = 0
    /\ RatEq(prevResult, <<1, 10>>)
    /\ step = 999
    /\ total_steps = 100
    /\ RatEq(result, <<9, 10>>)

====
